---- MODULE Spec2Model ----
(***************************************************************************)
(* A model of flacdat (src/src/main.rs): the apply pipeline over a small   *)
(* file system, the tabular codec (list's writer, apply's reader), the     *)
(* mutate step on a Vorbis comment block, and the WAV -> FLAC driver.      *)
(*                                                                         *)
(* Strings are sequences of one-character strings, so that joining,        *)
(* formatting and parsing are computed and not assumed.  Option<T> is a    *)
(* sequence of length at most one: None is <<>>, Some(x) is <<x>>.  A path *)
(* is the sequence of its components.                                      *)
(***************************************************************************)
EXTENDS Integers, Sequences, FiniteSets, TLC

\* ------------------------------------------------------------------ bounds

MaxRows == 2
MaxRuns == 2
MaxFaults == 1
MaxFiles == 3
MaxArtists == 2

\* ----------------------------------------------------------------- options

None == <<>>

Some(x) == <<x>>

\* ----------------------------------------------------------------- strings

Digits == <<"0", "1", "2", "3", "4", "5", "6", "7", "8", "9">>

IsDigit(c) == \E i \in 1..10 : Digits[i] = c

DigitValue(c) == (CHOOSE i \in 1..10 : Digits[i] = c) - 1

\* the largest u32, the largest i32 and the magnitude of the least i32, as
\* digit strings (the values themselves are past the checker's integers)
U32MaxDigits == <<"4", "2", "9", "4", "9", "6", "7", "2", "9", "5">>

I32MaxDigits == <<"2", "1", "4", "7", "4", "8", "3", "6", "4", "7">>

I32MinDigits == <<"2", "1", "4", "7", "4", "8", "3", "6", "4", "8">>

RECURSIVE StripZeros(_)
StripZeros(s) ==
    IF Len(s) > 1 /\ s[1] = "0" THEN StripZeros(Tail(s)) ELSE s

\* a <= b for digit strings read as numbers
DigitsLE(a, b) ==
    LET x == StripZeros(a)
        y == StripZeros(b)
    IN  \/ Len(x) < Len(y)
        \/ /\ Len(x) = Len(y)
           /\ \/ x = y
              \/ \E i \in 1..Len(x) :
                    /\ DigitValue(x[i]) < DigitValue(y[i])
                    /\ \A j \in 1..(i - 1) : x[j] = y[j]

\* u32::to_string / the magnitude part of i32::to_string
RECURSIVE NatToString(_)
NatToString(n) ==
    IF n < 10 THEN <<Digits[n + 1]>>
    ELSE Append(NatToString(n \div 10), Digits[(n % 10) + 1])

IntToString(n) == IF n < 0 THEN <<"-">> \o NatToString(0 - n) ELSE NatToString(n)

RECURSIVE DigitsValue(_)
DigitsValue(s) ==
    IF s = <<>> THEN 0
    ELSE 10 * DigitsValue(SubSeq(s, 1, Len(s) - 1)) + DigitValue(s[Len(s)])

AllDigits(s) == s # <<>> /\ \A i \in 1..Len(s) : IsDigit(s[i])

\* str::parse::<u32>: Some(n) or None (an optional leading "+" is accepted)
ParseU32(s) ==
    LET body == IF s # <<>> /\ s[1] = "+" THEN Tail(s) ELSE s
    IN  IF AllDigits(body) /\ DigitsLE(body, U32MaxDigits)
        THEN Some(DigitsValue(body)) ELSE None

\* str::parse::<i32>: Some(n) or None
ParseI32(s) ==
    LET neg == s # <<>> /\ s[1] = "-"
        body == IF s # <<>> /\ (s[1] = "+" \/ s[1] = "-") THEN Tail(s) ELSE s
    IN  IF ~AllDigits(body) THEN None
        ELSE IF neg THEN (IF DigitsLE(body, I32MinDigits)
                          THEN Some(0 - DigitsValue(body)) ELSE None)
        ELSE IF DigitsLE(body, I32MaxDigits) THEN Some(DigitsValue(body)) ELSE None

\* [String]::join(",")
RECURSIVE Join(_)
Join(ss) ==
    IF ss = <<>> THEN <<>>
    ELSE IF Len(ss) = 1 THEN ss[1]
    ELSE ss[1] \o <<",">> \o Join(Tail(ss))

\* ------------------------------------------------- Vorbis comment container

\* A comment block: each key holds a sequence of string values (a missing key
\* and an empty value list read back alike).
Comment(album, artist, title, track, year) ==
    [album |-> album, artist |-> artist, title |-> title, track |-> track, year |-> year]

EmptyComment == Comment(<<>>, <<>>, <<>>, <<>>, <<>>)

First(values) == IF values = <<>> THEN None ELSE Some(values[1])

\* VorbisComment::track(): the first TRACKNUMBER value, parsed
CommentTrack(comment) ==
    IF comment.track = <<>> THEN None ELSE ParseU32(comment.track[1])

\* the YEAR key: first value, parsed, None on a parse failure
CommentYear(comment) ==
    IF comment.year = <<>> THEN None ELSE ParseI32(comment.year[1])

Attributes(album, artist, title, track, year) ==
    [album |-> album, artist |-> artist, title |-> title, track |-> track, year |-> year]

\* Attributes::from_flac_path, after the container is read
FromFlacComment(comment) ==
    Attributes(First(comment.album), comment.artist, First(comment.title),
               CommentTrack(comment), CommentYear(comment))

\* Attributes::with_path
WithPath(attr, path) ==
    [path |-> path, album |-> attr.album, artist |-> attr.artist,
     title |-> attr.title, track |-> attr.track, year |-> attr.year]

\* a mutate step that sets the artist only when the update names one
MutateKeepArtist(comment, attr) ==
    [album  |-> IF attr.album # None THEN <<attr.album[1]>> ELSE comment.album,
     title  |-> IF attr.title # None THEN <<attr.title[1]>> ELSE comment.title,
     track  |-> IF attr.track # None THEN <<NatToString(attr.track[1])>> ELSE comment.track,
     artist |-> IF attr.artist # <<>> THEN attr.artist ELSE comment.artist,
     year   |-> comment.year]

\* the mutate step of apply_attributes: set_album / set_title / set_track when
\* present, set_artist always; no other key is touched
Mutate(comment, attr) ==
    [album  |-> IF attr.album # None THEN <<attr.album[1]>> ELSE comment.album,
     title  |-> IF attr.title # None THEN <<attr.title[1]>> ELSE comment.title,
     track  |-> IF attr.track # None THEN <<NatToString(attr.track[1])>> ELSE comment.track,
     artist |-> attr.artist,
     year   |-> comment.year]

\* ------------------------------------------------------------ tabular codec

Header == <<"path", "album", "artist", "title", "track", "year">>

OptionField(opt) == IF opt = None THEN <<>> ELSE opt[1]

\* one data row as list_attributes writes it, field by field
ListRow(item) ==
    << item.path,
       OptionField(item.album),
       Join(item.artist),
       OptionField(item.title),
       IF item.track = None THEN <<>> ELSE NatToString(item.track[1]),
       IF item.year = None THEN <<>> ELSE IntToString(item.year[1]) >>

\* The reader's record deserializer walks the row with a cursor.  Each De*
\* yields [ok, val, next]: whether the field parsed, its value, the cursor after.
De(ok, val, next) == [ok |-> ok, val |-> val, next |-> next]

\* String: one field; the end of the row is an error
DeString(row, pos) ==
    IF pos > Len(row) THEN De(FALSE, <<>>, pos) ELSE De(TRUE, row[pos], pos + 1)

\* Option<String>: None at the end of the row or on an empty field
DeOptionString(row, pos) ==
    IF pos > Len(row) THEN De(TRUE, None, pos)
    ELSE IF row[pos] = <<>> THEN De(TRUE, None, pos + 1)
    ELSE De(TRUE, Some(row[pos]), pos + 1)

\* Option<u32>
DeOptionU32(row, pos) ==
    IF pos > Len(row) THEN De(TRUE, None, pos)
    ELSE IF row[pos] = <<>> THEN De(TRUE, None, pos + 1)
    ELSE De(ParseU32(row[pos]) # None, ParseU32(row[pos]), pos + 1)

\* Option<i32>
DeOptionI32(row, pos) ==
    IF pos > Len(row) THEN De(TRUE, None, pos)
    ELSE IF row[pos] = <<>> THEN De(TRUE, None, pos + 1)
    ELSE De(ParseI32(row[pos]) # None, ParseI32(row[pos]), pos + 1)

\* Vec<String>: the reader's record deserializer hands a sequence the record
\* itself, so the sequence takes one element per field until the row ends.
\* FileAttributes::artist carries no deserialize_with, and read_attributes
\* splits nothing: no field is cut at its commas.
DeVecString(row, pos) == De(TRUE, SubSeq(row, pos, Len(row)), Len(row) + 1)

\* FileAttributes, fields in header order
DeFileAttributes(row) ==
    LET p  == DeString(row, 1)
        al == DeOptionString(row, p.next)
        ar == DeVecString(row, al.next)
        ti == DeOptionString(row, ar.next)
        tr == DeOptionU32(row, ti.next)
        yr == DeOptionI32(row, tr.next)
    IN  [ok   |-> p.ok /\ al.ok /\ ar.ok /\ ti.ok /\ tr.ok /\ yr.ok,
         item |-> [path |-> p.val, album |-> al.val, artist |-> ar.val,
                   title |-> ti.val, track |-> tr.val, year |-> yr.val]]

\* one record of the reader: every row has as many fields as the header
\* (the reader is not flexible), then the record deserializes
ReadRow(row) ==
    IF Len(row) # Len(Header) THEN [ok |-> FALSE, item |-> WithPath(Attributes(None, <<>>, None, None, None), <<>>)]
    ELSE DeFileAttributes(row)

\* read_attributes: every row must parse; then the rows are collected into a
\* map keyed by path, a later row replacing an earlier one of the same path
TableOk(rows) == \A i \in 1..Len(rows) : ReadRow(rows[i]).ok

TableKeys(rows) == {ReadRow(rows[i]).item.path : i \in 1..Len(rows)}

LastIndex(rows, key) ==
    CHOOSE i \in 1..Len(rows) :
        /\ ReadRow(rows[i]).item.path = key
        /\ \A j \in (i + 1)..Len(rows) : ReadRow(rows[j]).item.path # key

ReadAttributesMap(rows) ==
    [key \in TableKeys(rows) |-> ReadRow(rows[LastIndex(rows, key)]).item]

\* ----------------------------------------------------------- paths and files

\* Path::file_name: the final component
FileName(path) == path[Len(path)]

\* PathGroup::flac
Flac(base) == base

\* PathGroup::flac_output: the output directory joined with the file name
FlacOutput(base, outputDir) == Append(outputDir, FileName(Flac(base)))

AX == <<"a", "x.flac">>

BX == <<"b", "x.flac">>

AY == <<"a", "y.flac">>

SourcePaths == {AX, BX, AY}

OutputDirs == {<<"o">>, <<"a">>}

AllPaths == SourcePaths \cup {FlacOutput(p, d) : p \in SourcePaths, d \in OutputDirs}

\* what a path holds: nothing, bytes that are no FLAC stream, or a FLAC file
\* (its audio and its comment block)
NoFile == [kind |-> "none", audio |-> <<>>, tags |-> EmptyComment]

Junk == [kind |-> "junk", audio |-> <<>>, tags |-> EmptyComment]

FlacFile(audio, tags) == [kind |-> "flac", audio |-> audio, tags |-> tags]

OldComment ==
    Comment(<< <<"M">> >>, << <<"P">>, <<"Q">> >>, << <<"U">> >>,
            << <<"7">> >>, << <<"1", "8">> >>)

\* the table rows the runs draw from: two rows for a/x.flac that differ in the
\* year alone, a title-only row for b/x.flac (same file name, other directory),
\* a row for a/y.flac,
\* a row that is short of fields, a row whose track is not a number
RowA == <<AX, <<"L">>, <<"R">>, <<"T">>, <<"3">>, <<"1", "9">>>>

RowA2 == <<AX, <<"L">>, <<"R">>, <<"T">>, <<"3">>, <<"2", "0">>>>

RowB == <<BX, <<>>, <<>>, <<"T">>, <<>>, <<>>>>

RowShort == <<AY, <<"L">>>>

RowBadTrack == <<AY, <<"L">>, <<"R">>, <<"T">>, <<"z">>, <<"1", "9">>>>

RowY == <<AY, <<>>, <<"R", ",", "S">>, <<>>, <<>>, <<>>>>

RowPool == {RowA, RowA2, RowB, RowY, RowShort, RowBadTrack}

Tables == UNION {[1..n -> RowPool] : n \in 0..MaxRows}

\* the file systems a run may start on
InitialFiles(p) ==
    IF p = AX THEN {FlacFile(p, OldComment), NoFile, Junk}
    ELSE IF p \in SourcePaths THEN {FlacFile(p, OldComment)}
    ELSE IF p = <<"o", "x.flac">> THEN {NoFile, FlacFile(<<"prior">>, EmptyComment)}
    ELSE {NoFile}

Exists(files, p) == files[p].kind # "none"

\* every order of a set, as sequences: the iteration order of a HashMap
Orders(S) ==
    {seq \in [1..Cardinality(S) -> S] :
        \A i, j \in 1..Cardinality(S) : i # j => seq[i] # seq[j]}

\* -------------------------------------------------------------------- state

VARIABLES
    \* apply: the command's inputs and the world it runs in
    table,          \* the imported table's data rows, in file order
    output,         \* the output directory
    outputExists,   \* whether the output directory exists
    fs,             \* the file system: path -> NoFile, Junk or a FLAC file
    \* apply: the run
    pc,             \* the position in apply_attributes
    result,         \* "Running", "Ok", or the error the run returned
    attributes,     \* the map read_attributes returned
    todo,           \* the entries the for loop has still to yield, in its order
    cur,            \* the path of the entry in hand (<<>>: none)
    flac,           \* the comment block read from cur, as mutated
    run,            \* the number of this run of the command
    faults,         \* I/O failures injected so far
    \* apply: history
    ops,            \* this run's file operations, in order: <<kind, path>>
    runFs,          \* the file system as this run found it
    outAtEntry,     \* what cur's output path held when cur was taken up
    entryOps,       \* the length of ops when cur was taken up
    history,        \* the results of the runs that ended, in order
    \* convert
    files,          \* the command's arguments
    installed,      \* whether the encoder can be started
    cpc,            \* the position in convert_wav_to_flac
    cresult,        \* "Running", "Ok", "Panic" or the error returned
    wavs,           \* the matching inputs the loop has still to yield
    events,         \* the encoder's invocations, in order
    \* list, then read back: one record through the table
    lphase, comment0, item, row, parsed,
    \* the mutate step alone
    mphase, mcomment, mattr, mbefore, mread

applyVars ==
    <<table, output, outputExists, fs, pc, result, attributes, todo, cur, flac,
      run, faults, ops, runFs, outAtEntry, entryOps, history>>

convertVars == <<files, installed, cpc, cresult, wavs, events>>

codecVars == <<lphase, comment0, item, row, parsed>>

mutateVars == <<mphase, mcomment, mattr, mbefore, mread>>

vars == <<applyVars, convertVars, codecVars, mutateVars>>

NoAttributes == ReadAttributesMap(<<>>)

NoItem == WithPath(Attributes(None, <<>>, None, None, None), <<>>)

\* the parts of the state a specification does not use
ApplyIdle ==
    /\ table = <<>> /\ output = <<>> /\ outputExists = FALSE
    /\ fs = [p \in AllPaths |-> NoFile] /\ pc = "idle" /\ result = "Running"
    /\ attributes = NoAttributes /\ todo = <<>> /\ cur = <<>>
    /\ flac = EmptyComment /\ run = 0 /\ faults = 0 /\ ops = <<>>
    /\ runFs = [p \in AllPaths |-> NoFile] /\ outAtEntry = NoFile
    /\ entryOps = 0 /\ history = <<>>

ConvertIdle ==
    /\ files = <<>> /\ installed = FALSE /\ cpc = "idle" /\ cresult = "Running"
    /\ wavs = <<>> /\ events = <<>>

CodecIdle ==
    /\ lphase = "idle" /\ comment0 = EmptyComment /\ item = NoItem
    /\ row = <<>> /\ parsed = [ok |-> FALSE, item |-> NoItem]

MutateIdle ==
    /\ mphase = "idle" /\ mcomment = EmptyComment
    /\ mattr = Attributes(None, <<>>, None, None, None) /\ mbefore = EmptyComment
    /\ mread = Attributes(None, <<>>, None, None, None)

\* ------------------------------------------------------------------- apply

\* a step of apply leaves the other commands' state alone
ApplyOnly == UNCHANGED <<convertVars, codecVars, mutateVars>>

ApplyInit ==
    /\ table \in Tables
    /\ output \in OutputDirs
    /\ fs \in {f \in [AllPaths -> UNION {InitialFiles(p) : p \in AllPaths}] :
                  \A p \in AllPaths : f[p] \in InitialFiles(p)}
    /\ outputExists \in BOOLEAN
    /\ (\E p \in AllPaths : SubSeq(p, 1, Len(p) - 1) = output /\ Exists(fs, p))
          => outputExists
    /\ pc = "start" /\ result = "Running"
    /\ attributes = NoAttributes /\ todo = <<>> /\ cur = <<>>
    /\ flac = EmptyComment /\ run = 1 /\ faults = 0 /\ ops = <<>>
    /\ runFs = fs /\ outAtEntry = NoFile /\ entryOps = 0 /\ history = <<>>

\* a step that fails and is passed over: the loop goes on to the next entry
FailAndGoOn(e) == /\ pc' = "loop" /\ result' = result

\* `?` and `return Err(..)`: the error leaves apply_attributes at once
Fail(e) == /\ pc' = "failed" /\ result' = e

\* the output directory is created when it does not exist
CreateOutput ==
    /\ pc = "start"
    /\ \/ /\ outputExists
          /\ pc' = "read"
          /\ UNCHANGED <<outputExists, result, faults>>
       \/ /\ ~outputExists
          /\ outputExists' = TRUE
          /\ pc' = "read"
          /\ UNCHANGED <<result, faults>>
       \/ /\ ~outputExists
          /\ faults < MaxFaults
          /\ faults' = faults + 1
          /\ Fail("IO")
          /\ UNCHANGED outputExists
    /\ UNCHANGED <<table, output, fs, attributes, todo, cur, flac, run, ops,
                   runFs, outAtEntry, entryOps, history>>
    /\ ApplyOnly

\* read_attributes: a row that does not parse fails the whole read; the loop
\* then walks the map in an order of the map's choosing
ReadAttributes ==
    /\ pc = "read"
    /\ \/ /\ ~TableOk(table)
          /\ Fail("Csv")
          /\ UNCHANGED <<attributes, todo>>
       \/ /\ TableOk(table)
          /\ attributes' = ReadAttributesMap(table)
          /\ todo' \in Orders(TableKeys(table))
          /\ pc' = "loop"
          /\ UNCHANGED result
    /\ UNCHANGED <<table, output, outputExists, fs, cur, flac, run, faults, ops,
                   runFs, outAtEntry, entryOps, history>>
    /\ ApplyOnly

\* the for loop: the next entry, or Ok(()) when none is left
LoopNext ==
    /\ pc = "loop"
    /\ \/ /\ todo = <<>>
          /\ pc' = "done"
          /\ result' = IF result = "Running" THEN "Ok" ELSE result
          /\ UNCHANGED <<todo, cur, outAtEntry, entryOps>>
       \/ /\ todo # <<>>
          /\ cur' = Head(todo)
          /\ todo' = Tail(todo)
          /\ outAtEntry' = fs[FlacOutput(Head(todo), output)]
          /\ entryOps' = Len(ops)
          /\ pc' = "load"
          /\ UNCHANGED result
    /\ UNCHANGED <<table, output, outputExists, fs, attributes, flac, run,
                   faults, ops, runFs, history>>
    /\ ApplyOnly

\* the container is read from the entry's path and mutated in memory
LoadAndMutate ==
    /\ pc = "load"
    /\ ops' = Append(ops, <<"load", cur>>)
    /\ \/ /\ fs[cur].kind = "flac"
          /\ flac' = Mutate(fs[cur].tags, attributes[cur])
          /\ pc' = "guard"
          /\ UNCHANGED result
       \/ /\ fs[cur].kind # "flac"
          /\ Fail("Vorbis")
          /\ UNCHANGED flac
    /\ UNCHANGED <<table, output, outputExists, fs, attributes, todo, cur, run,
                   faults, runFs, outAtEntry, entryOps, history>>
    /\ ApplyOnly

\* a guard that lets an existing output path through
GuardNever ==
    /\ pc = "guard"
    /\ pc' = "copy"
    /\ UNCHANGED <<table, output, outputExists, fs, result, attributes, todo,
                   cur, flac, run, faults, ops, runFs, outAtEntry, entryOps, history>>
    /\ ApplyOnly

\* the no-overwrite guard
Guard ==
    /\ pc = "guard"
    /\ \/ /\ Exists(fs, FlacOutput(cur, output))
          /\ Fail("AlreadyExists")
       \/ /\ ~Exists(fs, FlacOutput(cur, output))
          /\ pc' = "copy"
          /\ UNCHANGED result
    /\ UNCHANGED <<table, output, outputExists, fs, attributes, todo, cur, flac,
                   run, faults, ops, runFs, outAtEntry, entryOps, history>>
    /\ ApplyOnly

\* the source is moved to the output path, not copied
CopyMoves ==
    /\ pc = "copy"
    /\ ops' = Append(ops, <<"copy", FlacOutput(cur, output)>>)
    /\ fs' = [fs EXCEPT ![FlacOutput(cur, output)] = fs[Flac(cur)], ![Flac(cur)] = NoFile]
    /\ pc' = "write"
    /\ UNCHANGED <<table, output, outputExists, result, attributes, todo, cur,
                   flac, run, faults, runFs, outAtEntry, entryOps, history>>
    /\ ApplyOnly

\* fs::copy of the source to the output path; a failed copy may leave a
\* partial file behind
Copy ==
    /\ pc = "copy"
    /\ ops' = Append(ops, <<"copy", FlacOutput(cur, output)>>)
    /\ \/ /\ fs' = [fs EXCEPT ![FlacOutput(cur, output)] = fs[Flac(cur)]]
          /\ pc' = "write"
          /\ UNCHANGED <<result, faults>>
       \/ /\ faults < MaxFaults
          /\ faults' = faults + 1
          /\ \/ UNCHANGED fs
             \/ fs' = [fs EXCEPT ![FlacOutput(cur, output)] = Junk]
          /\ Fail("IO")
    /\ UNCHANGED <<table, output, outputExists, attributes, todo, cur, flac,
                   run, runFs, outAtEntry, entryOps, history>>
    /\ ApplyOnly

\* write_to_path of the mutated block into the copy; a failed write may leave
\* the copy as it was or damaged
Write ==
    /\ pc = "write"
    /\ ops' = Append(ops, <<"write", FlacOutput(cur, output)>>)
    /\ \/ /\ fs' = [fs EXCEPT ![FlacOutput(cur, output)] =
                        FlacFile(fs[FlacOutput(cur, output)].audio, flac)]
          /\ pc' = "loop"
          /\ UNCHANGED <<result, faults>>
       \/ /\ faults < MaxFaults
          /\ faults' = faults + 1
          /\ \/ UNCHANGED fs
             \/ fs' = [fs EXCEPT ![FlacOutput(cur, output)] = Junk]
          /\ Fail("Vorbis")
    /\ UNCHANGED <<table, output, outputExists, attributes, todo, cur, flac,
                   run, runFs, outAtEntry, entryOps, history>>
    /\ ApplyOnly

\* the command is run again, with the same arguments, on the files as they are
Rerun ==
    /\ pc \in {"done", "failed"}
    /\ run < MaxRuns
    /\ run' = run + 1
    /\ pc' = "start" /\ result' = "Running"
    /\ attributes' = NoAttributes /\ todo' = <<>> /\ cur' = <<>>
    /\ flac' = EmptyComment /\ ops' = <<>> /\ runFs' = fs
    /\ outAtEntry' = NoFile /\ entryOps' = 0
    /\ history' = Append(history, result)
    /\ UNCHANGED <<table, output, outputExists, fs, faults>>
    /\ ApplyOnly

ApplyNext ==
    \/ CreateOutput
    \/ ReadAttributes
    \/ LoopNext
    \/ LoadAndMutate
    \/ Guard
    \/ Copy
    \/ Write
    \/ Rerun

Init == ApplyInit /\ ConvertIdle /\ CodecIdle /\ MutateIdle

Next == ApplyNext

Spec == Init /\ [][Next]_vars

\* ----------------------------------------------------------------- convert

\* str::ends_with
EndsWith(s, suffix) ==
    /\ Len(s) >= Len(suffix)
    /\ SubSeq(s, Len(s) - Len(suffix) + 1, Len(s)) = suffix

WavExtension == <<".", "w", "a", "v">>

RECURSIVE SelectWav(_)
\* ConvertToFlac::wav_paths: the arguments that end in ".wav", in order
SelectWav(args) ==
    IF args = <<>> THEN <<>>
    ELSE IF EndsWith(Head(args), WavExtension)
         THEN <<Head(args)>> \o SelectWav(Tail(args))
         ELSE SelectWav(Tail(args))

WavPaths(args) == SelectWav(args)

\* the index of the last "." that ends a file stem (0: the name has none; a
\* leading "." begins a name and ends no stem)
LastDot(name) ==
    IF \E i \in 2..Len(name) : name[i] = "."
    THEN CHOOSE i \in 2..Len(name) :
            name[i] = "." /\ \A j \in (i + 1)..Len(name) : name[j] # "."
    ELSE 0

\* Path::with_extension, for a path that is one file name
WithExtension(name, ext) ==
    IF LastDot(name) = 0 THEN name \o <<".">> \o ext
    ELSE SubSeq(name, 1, LastDot(name)) \o ext

FlacExtension == <<"f", "l", "a", "c">>

FilePool ==
    { <<"a", ".", "w", "a", "v">>, <<"b", ".", "w", "a", "v">>,
      <<"c", ".", "m", "p", "3">>, <<".", "w", "a", "v">> }

Event(kind, input, target, outcome) ==
    [kind |-> kind, input |-> input, target |-> target, outcome |-> outcome]

\* how a child process may end: it could not be started, or it ran and left
\* with a zero or a non-zero status; only an installed encoder can run
Outcomes(canStart) ==
    IF canStart THEN {"spawnfail", "exit0", "exit1"} ELSE {"spawnfail"}

\* a step of convert leaves the other commands' state alone
ConvertOnly == UNCHANGED <<applyVars, codecVars, mutateVars>>

ConvertInit ==
    /\ files \in UNION {[1..n -> FilePool] : n \in 0..MaxFiles}
    /\ installed \in BOOLEAN
    /\ cpc = "probe" /\ cresult = "Running" /\ wavs = <<>> /\ events = <<>>

\* a probe whose failure is dropped
EnsureFfmpegUnchecked ==
    /\ cpc = "probe"
    /\ events' = Append(events, Event("probe", <<>>, <<>>,
                                      IF installed THEN "exit1" ELSE "spawnfail"))
    /\ cpc' = "assert"
    /\ UNCHANGED <<files, installed, cresult, wavs>>
    /\ ConvertOnly

\* ensure_ffmpeg: the encoder is started with no arguments; only a failure to
\* start it is an error, mapped to FfmpegNotInstalled
EnsureFfmpeg ==
    /\ cpc = "probe"
    /\ events' = Append(events, Event("probe", <<>>, <<>>,
                                      IF installed THEN "exit1" ELSE "spawnfail"))
    /\ IF installed
       THEN cpc' = "assert" /\ UNCHANGED cresult
       ELSE cpc' = "failed" /\ cresult' = "FfmpegNotInstalled"
    /\ UNCHANGED <<files, installed, wavs>>
    /\ ConvertOnly

\* assert!(args.wav_paths().next().is_some())
AssertWav ==
    /\ cpc = "assert"
    /\ IF WavPaths(files) = <<>>
       THEN cpc' = "failed" /\ cresult' = "Panic" /\ UNCHANGED wavs
       ELSE cpc' = "loop" /\ wavs' = WavPaths(files) /\ UNCHANGED cresult
    /\ UNCHANGED <<files, installed, events>>
    /\ ConvertOnly

\* `.status()?`: the io::Error of a child that could not be started leaves the
\* function; an ExitStatus, whatever it says, does not
StatusError(outcome) == outcome = "spawnfail"

\* one turn of the loop: the encoder is run on the next matching input
Encode ==
    /\ cpc = "loop" /\ wavs # <<>>
    /\ \E outcome \in Outcomes(installed) :
          /\ events' = Append(events, Event("encode", Head(wavs),
                                  WithExtension(Head(wavs), FlacExtension), outcome))
          /\ IF StatusError(outcome)
             THEN cpc' = "failed" /\ cresult' = "IO" /\ UNCHANGED wavs
             ELSE wavs' = Tail(wavs) /\ UNCHANGED <<cpc, cresult>>
    /\ UNCHANGED <<files, installed>>
    /\ ConvertOnly

\* the loop is over: Ok(())
ConvertDone ==
    /\ cpc = "loop" /\ wavs = <<>>
    /\ cpc' = "done" /\ cresult' = "Ok"
    /\ UNCHANGED <<files, installed, wavs, events>>
    /\ ConvertOnly

InitConvert == ApplyIdle /\ ConvertInit /\ CodecIdle /\ MutateIdle

NextConvert ==
    \/ EnsureFfmpeg
    \/ AssertWav
    \/ Encode
    \/ ConvertDone

SpecConvert == InitConvert /\ [][NextConvert]_vars

\* ------------------------------------------- list, then the table read back

ValuePool == {<<>>, << <<"L">> >>, << <<"L">>, <<"M">> >>}

ArtistNames == {<<"R">>, <<"S">>, <<"R", ",", "S">>}

ArtistPool == UNION {[1..n -> ArtistNames] : n \in 0..MaxArtists}

TrackValues == {<<>>, << <<"3">> >>, << <<"1", "2">> >>, << <<"z">> >>}

YearValues == {<<>>, << <<"1", "9">> >>, << <<"-", "5">> >>, << <<"z">> >>}

CommentPool ==
    {Comment(al, ar, ti, tr, yr) :
        al \in ValuePool, ar \in ArtistPool, ti \in {<<>>, << <<"T">> >>},
        tr \in TrackValues, yr \in YearValues}

\* a step of the codec leaves the other commands' state alone
CodecOnly == UNCHANGED <<applyVars, convertVars, mutateVars>>

CodecInit ==
    /\ comment0 \in CommentPool
    /\ lphase = "file" /\ item = NoItem /\ row = <<>>
    /\ parsed = [ok |-> FALSE, item |-> NoItem]

\* list_attributes: the attributes are read from the file and given its path
Extract ==
    /\ lphase = "file"
    /\ item' = WithPath(FromFlacComment(comment0), AX)
    /\ lphase' = "item"
    /\ UNCHANGED <<comment0, row, parsed>>
    /\ CodecOnly

\* list_attributes: the record is written as one row
WriteRow ==
    /\ lphase = "item"
    /\ row' = ListRow(item)
    /\ lphase' = "row"
    /\ UNCHANGED <<comment0, item, parsed>>
    /\ CodecOnly

\* read_attributes: the row is read back
ReadBack ==
    /\ lphase = "row"
    /\ parsed' = ReadRow(row)
    /\ lphase' = "read"
    /\ UNCHANGED <<comment0, item, row>>
    /\ CodecOnly

InitCodec == ApplyIdle /\ ConvertIdle /\ CodecInit /\ MutateIdle

NextCodec ==
    \/ Extract
    \/ WriteRow
    \/ ReadBack

SpecCodec == InitCodec /\ [][NextCodec]_vars

\* ----------------------------------------------------- the mutate step alone

OptionPool(S) == {None} \cup {Some(x) : x \in S}

AttributesPool ==
    {Attributes(al, ar, ti, tr, yr) :
        al \in OptionPool({<<"L">>}), ar \in ArtistPool, ti \in OptionPool({<<"T">>}),
        tr \in OptionPool({0, 3, 12}), yr \in OptionPool({19, -5})}

ContainerPool ==
    {EmptyComment, OldComment,
     Comment(<< <<"M">>, <<"N">> >>, <<>>, <<>>, << <<"z">> >>, << <<"z">> >>)}

\* a step on the container alone leaves the commands' state alone
MutateOnly == UNCHANGED <<applyVars, convertVars, codecVars>>

MutateInit ==
    /\ mcomment \in ContainerPool
    /\ mattr \in AttributesPool
    /\ mbefore = mcomment
    /\ mphase = "loaded"
    /\ mread = Attributes(None, <<>>, None, None, None)

\* the mutate step, on a container already read
MutateStep ==
    /\ mphase = "loaded"
    /\ mcomment' = Mutate(mcomment, mattr)
    /\ mphase' = "mutated"
    /\ UNCHANGED <<mattr, mbefore, mread>>
    /\ MutateOnly

\* the mutated container seen through the accessors from_flac_path uses
ReadMutated ==
    /\ mphase = "mutated"
    /\ mread' = FromFlacComment(mcomment)
    /\ mphase' = "read"
    /\ UNCHANGED <<mcomment, mattr, mbefore>>
    /\ MutateOnly

InitMutate == ApplyIdle /\ ConvertIdle /\ CodecIdle /\ MutateInit

NextMutate ==
    \/ MutateStep
    \/ ReadMutated

SpecMutate == InitMutate /\ [][NextMutate]_vars

\* ------------------------------------------------------- properties: apply

OutputName == FlacOutput(cur, output)

ExistedAtEntry == outAtEntry.kind # "none"

Returned == pc \in {"done", "failed"}

\* the file operations done for the entry in hand
EntryOps == {ops[i] : i \in (entryOps + 1)..Len(ops)}

\* nothing was copied or written to the output path of the entry in hand, and
\* the path holds what it held when the entry was taken up
OutputUntouched ==
    /\ <<"copy", OutputName>> \notin EntryOps
    /\ <<"write", OutputName>> \notin EntryOps
    /\ fs[OutputName] = outAtEntry

\* a run after a run that succeeded on a table with rows ends with
\* AlreadyExists, and no file the run found is modified
SecondRunRefused ==
    (run >= 2 /\ history[run - 1] = "Ok" /\ table # <<>> /\ Returned) =>
        /\ result = "AlreadyExists"
        /\ \A p \in AllPaths : Exists(runFs, p) => fs[p] = runFs[p]

\* C1 as stated: whenever the output path of an entry exists when the entry is
\* processed, the run returns AlreadyExists, nothing is copied or written to
\* that path and its content is unchanged; a second run after a successful one
\* fails with AlreadyExists and leaves the first run's outputs as they were.
C1_AlreadyExistsAlways ==
    /\ (cur # <<>> /\ ExistedAtEntry) =>
          /\ pc \in {"load", "guard", "failed"}
          /\ OutputUntouched
          /\ pc = "failed" => result = "AlreadyExists"
    /\ SecondRunRefused

\* C1 amended: the guard comes after the load, so an entry whose container does
\* not load ends the run with the load's error; an entry whose container loads
\* and whose output path exists ends it with AlreadyExists.  Either way nothing
\* is copied or written to the existing path.
C1_NoOverwrite ==
    /\ (cur # <<>> /\ ExistedAtEntry) =>
          /\ pc \in {"load", "guard", "failed"}
          /\ OutputUntouched
          /\ pc = "failed" =>
                result = IF fs[cur].kind = "flac" THEN "AlreadyExists" ELSE "Vorbis"
    /\ SecondRunRefused

\* a second run, after a first that succeeded, is refused at an output of the first
C1_Witness ==
    /\ run = 2 /\ history = <<"Ok">> /\ pc = "failed" /\ result = "AlreadyExists"
    /\ ExistedAtEntry
    /\ fs[OutputName].kind = "flac" /\ fs[OutputName] = runFs[OutputName]

\* every file the run found is as the run found it
FoundFilesUnchanged == \A p \in AllPaths : Exists(runFs, p) => fs[p] = runFs[p]

\* a step changes no path but the output path of the entry in hand: the copy
\* when nothing is there, the tag write right after that copy
WritesOnlyFresh ==
    \A p \in AllPaths :
        fs'[p] # fs[p] =>
            /\ p = OutputName
            /\ \/ pc = "copy" /\ ~Exists(fs, p)
               \/ pc = "write" /\ ops # <<>> /\ ops[Len(ops)] = <<"copy", p>>

\* C2: apply writes only to output paths that did not exist right before the
\* copy, so every file that exists when the run starts (each entry's source
\* file among them) has the same bytes throughout, whether the run succeeds or
\* fails, also when the output directory is the source's own directory.
C2_SourceNeverMutated == [](FoundFilesUnchanged) /\ [][WritesOnlyFresh]_vars

\* the output directory is the source's own: the run is refused, the source intact
C2_Witness ==
    /\ output = <<"a">> /\ cur = AX /\ OutputName = cur
    /\ pc = "failed" /\ result = "AlreadyExists"
    /\ fs[cur].kind = "flac" /\ fs[cur] = runFs[cur]

\* a row that the table format calls malformed: the wrong number of fields, or
\* a track or year field that is neither empty nor a number
Malformed(r) ==
    \/ Len(r) # Len(Header)
    \/ r[5] # <<>> /\ ParseU32(r[5]) = None
    \/ r[6] # <<>> /\ ParseI32(r[6]) = None

\* C4 as stated: a table with a malformed row at any position makes
\* read_attributes fail, so the run returns the parse error and no container is
\* opened, no file copied and none written.
C4_MalformedAborts ==
    ((\E i \in 1..Len(table) : Malformed(table[i])) /\ pc \notin {"start", "read"}
        /\ ~(pc = "failed" /\ result = "IO" /\ ops = <<>>))
    => (result = "Csv" /\ ops = <<>> /\ fs = runFs)

\* the run has returned: nothing more happens in it
NothingAfterReturn ==
    (result # "Running" /\ run' = run) =>
        (fs' = fs /\ ops' = ops /\ result' = result /\ pc' = pc)

\* what a completed entry leaves at its output path
Applied(k) == FlacFile(fs[k].audio, Mutate(fs[k].tags, attributes[k]))

\* an error ends the run at the step that raised it: no entry still to come
\* was loaded, and the operations done are those of the entries taken up
FailedAtOnce ==
    pc = "failed" =>
        /\ result \in {"IO", "Csv", "Vorbis", "AlreadyExists"}
        /\ \A i \in 1..Len(todo) : \A j \in 1..Len(ops) : ops[j] # <<"load", todo[i]>>
        /\ Len(ops) <= 3 * (Cardinality(DOMAIN attributes) - Len(todo))

\* success means every entry was loaded, copied and written
OkMeansAll ==
    result = "Ok" =>
        /\ TableOk(table) /\ todo = <<>>
        /\ \A k \in TableKeys(table) :
              /\ <<"load", k>> \in {ops[i] : i \in 1..Len(ops)}
              /\ <<"copy", FlacOutput(k, output)>> \in {ops[i] : i \in 1..Len(ops)}
              /\ <<"write", FlacOutput(k, output)>> \in {ops[i] : i \in 1..Len(ops)}
              /\ fs[FlacOutput(k, output)] = Applied(k)

\* C5: the first failing step (load, guard, copy or write) ends the run with
\* its error: no step is performed afterwards for any entry, nothing is retried,
\* and the run reports success only if every entry completed every step.
C5_TerminalOnFirstFailure ==
    [](FailedAtOnce /\ OkMeansAll) /\ [][NothingAfterReturn]_vars

\* a run that failed with an entry still unprocessed, after one was completed
C5_Witness ==
    /\ pc = "failed" /\ todo # <<>>
    /\ \E i \in 1..Len(ops) : ops[i][1] = "write"

\* the position of a key's last row in the table
RowOf(k) == LastIndex(table, k)

\* C9 as stated: apply takes the entries in the order of their rows (a repeated
\* path at its last row), so when the run aborts at some file, the files whose
\* rows come earlier have their output copies and the files whose rows come
\* later were not touched.
C9_TableOrder ==
    (pc = "failed" /\ cur # <<>>) =>
        \A k \in TableKeys(table) :
            /\ RowOf(k) < RowOf(cur) =>
                  <<"write", FlacOutput(k, output)>> \in {ops[i] : i \in 1..Len(ops)}
            /\ RowOf(k) > RowOf(cur) =>
                  <<"load", k>> \notin {ops[i] : i \in 1..Len(ops)}

YearFields == {<<>>, <<"1", "9">>, <<"2", "0">>, <<"-", "5">>}

\* the entry in hand has just been written
JustWritten ==
    /\ pc = "loop" /\ cur # <<>>
    /\ ops # <<>> /\ ops[Len(ops)] = <<"write", OutputName>>

\* C10 as stated: apply never changes the year: the output copy's YEAR is the
\* source's, and the output is the same whatever well-formed year the row holds.
C10_YearIgnored ==
    JustWritten =>
        /\ fs[OutputName].tags.year = fs[cur].tags.year
        /\ \A y \in YearFields :
              fs[OutputName] =
                  FlacFile(fs[cur].audio,
                           Mutate(fs[cur].tags,
                                  ReadRow([table[RowOf(cur)] EXCEPT ![6] = y]).item))

\* ----------------------------------------------------- properties: convert

EncodeEvents == SelectSeq(events, LAMBDA e : e.kind = "encode")

\* the encoder is run once per matching input, in the inputs' order
OncePerInputInOrder ==
    /\ Len(EncodeEvents) <= Len(WavPaths(files))
    /\ \A i \in 1..Len(EncodeEvents) : EncodeEvents[i].input = WavPaths(files)[i]
    /\ cpc = "done" => Len(EncodeEvents) = Len(WavPaths(files))

\* C6 as stated: the encoder is invoked once per matching input, in order, and
\* an invocation that fails (the process could not be started, or it ended
\* unsuccessfully) makes convert return an error at once, with no invocation
\* for the inputs that remain.
C6_EncoderFailureStops ==
    /\ OncePerInputInOrder
    /\ \A i \in 1..Len(events) :
          (events[i].kind = "encode" /\ events[i].outcome \in {"spawnfail", "exit1"}) =>
              /\ i = Len(events)
              /\ cpc = "failed" /\ cresult \notin {"Running", "Ok"}

\* C7: the probe comes first in every run of convert (before the assertion on
\* the inputs and before any encode); when it fails the run ends with
\* FfmpegNotInstalled and the encoder is never run on an input, whatever the
\* inputs are, a list with no ".wav" input included.
C7_ProbeFirst ==
    /\ cpc # "probe" =>
          /\ events # <<>> /\ events[1].kind = "probe"
          /\ \A i \in 2..Len(events) : events[i].kind = "encode"
    /\ cpc = "probe" => (events = <<>> /\ cresult = "Running")
    /\ (~installed /\ cpc # "probe") =>
          /\ cpc = "failed" /\ cresult = "FfmpegNotInstalled"
          /\ EncodeEvents = <<>>

\* the probe failed on a list with no ".wav" input: the error, not the assertion
C7_Witness ==
    /\ ~installed /\ files # <<>> /\ WavPaths(files) = <<>>
    /\ cpc = "failed" /\ cresult = "FfmpegNotInstalled"
    /\ Len(events) = 1

\* ------------------------------------------------------- properties: codec

AllPopulated(a) ==
    /\ a.album # None /\ a.artist # <<>> /\ a.title # None
    /\ a.track # None /\ a.year # None

NoComma(name) == \A i \in 1..Len(name) : name[i] # ","

\* C8 as stated: a record with every field populated and no comma in any artist
\* element, written as a row and read back, is equal to the original in every
\* field.
C8_RoundTrip ==
    (lphase = "read" /\ AllPopulated(item)
        /\ \A i \in 1..Len(item.artist) : NoComma(item.artist[i]))
    => (parsed.ok /\ parsed.item = item)

\* ------------------------------------------------- properties: mutate step

\* C3: after the mutate step the album is [album] when the update has one and
\* is unchanged otherwise, the title likewise, the track is the update's when it
\* has one and is unchanged otherwise, and the artist is exactly the update's
\* sequence, the empty one included.
C3_PartialUpdate ==
    /\ mphase \in {"mutated", "read"} =>
          /\ mcomment.album =
                IF mattr.album # None THEN <<mattr.album[1]>> ELSE mbefore.album
          /\ mcomment.title =
                IF mattr.title # None THEN <<mattr.title[1]>> ELSE mbefore.title
          /\ mattr.track = None => mcomment.track = mbefore.track
          /\ mcomment.artist = mattr.artist
    /\ mphase = "read" =>
          /\ mattr.track # None => mread.track = mattr.track
          /\ mread.artist = mattr.artist
          /\ mattr.album # None => mread.album = mattr.album
          /\ mattr.title # None => mread.title = mattr.title

\* an update with only a title, on a container that had artists: album and
\* track stay, the artists are cleared
C3_Witness ==
    /\ mphase = "read"
    /\ mattr.album = None /\ mattr.track = None /\ mattr.title # None
    /\ mattr.artist = <<>> /\ mbefore.artist # <<>> /\ mcomment.artist = <<>>
    /\ mbefore.album # <<>> /\ mcomment.album = mbefore.album
    /\ mbefore.track # <<>> /\ mcomment.track = mbefore.track
    /\ mcomment.title = <<mattr.title[1]>> /\ mcomment.title # mbefore.title

====
